---------------------------- MODULE Spec2Model ----------------------------
(***************************************************************************)
(* Template generation engine of agentweave                                *)
(* (src/agentweave/utils/template_generator.py).                           *)
(*                                                                         *)
(* Text is a sequence of one-character strings.  A configuration value is  *)
(* a tagged record: [t |-> "str", s |-> text], [t |-> "int", n |-> i],     *)
(* [t |-> "map", m |-> <<[k |-> key, v |-> value], ...>>] (a Python dict,  *)
(* in insertion order) or [t |-> "list", l |-> <<value, ...>>].            *)
(***************************************************************************)
EXTENDS Integers, Sequences, FiniteSets, TLC

VARIABLES
    config,     \* self.config: the configuration mapping (a dict)
    rText,      \* resolver: the text handed to replace_placeholders
    rPos,       \* resolver: position of re.sub's scan in rText (1-based)
    rOut,       \* resolver: the output built so far
    rErr,       \* resolver: "none", or the exception that escaped
    rPc,        \* resolver: "idle" | "scanning" | "done" | "raised"
    fsDirs,     \* file system: the set of directories (absolute paths)
    fsFiles,    \* file system: file path -> bytes
    fs0,        \* the file system when generate_from_template was called
    schema,     \* self.schema
    phase,      \* "NotStarted" | "Validating" | "Validated" | "Walking" | "Done" | "Failed"
    error,      \* the exception that escaped the call: [type, arg]
    walkStack,  \* os.walk: per level, the directories still to be walked
    root,       \* the directory os.walk yielded last
    files,      \* the names of `files` the loop of line 162 has not reached yet
    visited,    \* the directories os.walk has listed
    opened,     \* the source files the loop body took up (past line 164)
    copied,     \* the files written, in order: [src, dst, mode]
    exclude_paths, \* create_template_from_project: the exclude patterns, or None
    denied,     \* the files that cannot be opened for reading (permission denied)
    stage,      \* "single": one call; "second": the call made again; "alone": a
                \* call run by itself before the two run "together"
    alone,      \* the outcomes of the calls run before, by call
    current,    \* the call that is running: "generate" or "capture"
    parked,     \* the local state of the call that is not running
    nested      \* the output directory given lies inside the tree that is walked

resolverVars == <<rText, rPos, rOut, rErr, rPc>>
fsVars == <<fsDirs, fsFiles>>
walkVars == <<walkStack, root, files, visited, opened, copied>>
genVars == <<fsDirs, fsFiles, fs0, schema, phase, error, walkStack, root, files,
             visited, opened, copied>>
captureVars == <<exclude_paths, denied>>
schedVars == <<stage, alone, current, parked, nested>>
vars == <<config, rText, rPos, rOut, rErr, rPc, fsDirs, fsFiles, fs0, schema, phase,
          error, walkStack, root, files, visited, opened, copied, exclude_paths, denied,
          stage, alone, current, parked, nested>>

---------------------------------------------------------------------------
(* Python values and their text                                            *)

StrV(s) == [t |-> "str", s |-> s]
IntV(n) == [t |-> "int", n |-> n]
MapV(m) == [t |-> "map", m |-> m]
ListV(l) == [t |-> "list", l |-> l]
NoneV == [t |-> "none"]
KV(k, v) == [k |-> k, v |-> v]

\* key in dict
HasKey(m, key) == \E i \in 1..Len(m) : m[i].k = key

\* dict[key]
Get(m, key) == m[CHOOSE i \in 1..Len(m) : m[i].k = key].v

Digit(d) == <<"0", "1", "2", "3", "4", "5", "6", "7", "8", "9">>[d + 1]

RECURSIVE Decimal(_)
\* str(int) of a non-negative int
Decimal(n) == IF n < 10 THEN <<Digit(n)>> ELSE Decimal(n \div 10) \o <<Digit(n % 10)>>

\* str(int)
IntStr(n) == IF n < 0 THEN <<"-">> \o Decimal(-n) ELSE Decimal(n)

RECURSIVE PyRepr(_)
RECURSIVE ReprItems(_, _)
RECURSIVE ReprElems(_, _)
\* repr(value); the strings of the model hold no quote, backslash or control
\* character, for which repr is the text between single quotes
PyRepr(value) ==
    CASE value.t = "str" -> <<"'">> \o value.s \o <<"'">>
      [] value.t = "int" -> IntStr(value.n)
      [] value.t = "map" -> <<"{">> \o ReprItems(value.m, 1) \o <<"}">>
      [] value.t = "list" -> <<"[">> \o ReprElems(value.l, 1) \o <<"]">>
      [] value.t = "none" -> <<"N", "o", "n", "e">>

ReprItems(m, i) ==
    IF i > Len(m) THEN <<>>
    ELSE (IF i > 1 THEN <<",", " ">> ELSE <<>>)
         \o PyRepr(StrV(m[i].k)) \o <<":", " ">> \o PyRepr(m[i].v)
         \o ReprItems(m, i + 1)

ReprElems(l, i) ==
    IF i > Len(l) THEN <<>>
    ELSE (IF i > 1 THEN <<",", " ">> ELSE <<>>) \o PyRepr(l[i]) \o ReprElems(l, i + 1)

\* str(value)
PyStr(value) == IF value.t = "str" THEN value.s ELSE PyRepr(value)

\* needle in haystack, for two str
IsSubstring(needle, hay) ==
    \E i \in 0..(Len(hay) - Len(needle)) : SubSeq(hay, i + 1, i + Len(needle)) = needle

RECURSIVE Split(_, _)
\* str.split(sep) for a one-character sep
Split(s, sep) ==
    IF \E i \in 1..Len(s) : s[i] = sep
    THEN LET i == CHOOSE j \in 1..Len(s) : s[j] = sep /\ \A h \in 1..(j - 1) : s[h] # sep
         IN <<SubSeq(s, 1, i - 1)>> \o Split(SubSeq(s, i + 1, Len(s)), sep)
    ELSE <<s>>

---------------------------------------------------------------------------
(* The placeholder pattern: two opening braces, optional whitespace, one   *)
(* or more word characters or dots, optional whitespace, two closing braces *)

WhitespaceChars == {" ", "\t", "\n", "\r"}

WordChars ==
    {"a", "b", "c", "d", "e", "f", "g", "h", "i", "j", "k", "l", "m",
     "n", "o", "p", "q", "r", "s", "t", "u", "v", "w", "x", "y", "z",
     "A", "B", "C", "D", "E", "F", "G", "H", "I", "J", "K", "L", "M",
     "N", "O", "P", "Q", "R", "S", "T", "U", "V", "W", "X", "Y", "Z",
     "0", "1", "2", "3", "4", "5", "6", "7", "8", "9", "_", "U+E9"}

RECURSIVE SkipWhile(_, _, _)
\* the first position from i on whose character is not in class
SkipWhile(s, i, class) ==
    IF i <= Len(s) /\ s[i] \in class THEN SkipWhile(s, i + 1, class) ELSE i

NoMatch == [found |-> FALSE, group0 |-> <<>>, group2 |-> <<>>, end |-> 0]

\* placeholder_pattern with one brace on each side
PlaceholderPatternSingleBrace(s, i) ==
    LET j == SkipWhile(s, i + 1, WhitespaceChars)
        k == SkipWhile(s, j, WordChars \cup {"."})
        e == SkipWhile(s, k, WhitespaceChars)
    IN IF /\ i <= Len(s)
          /\ s[i] = "{"
          /\ k > j
          /\ e <= Len(s)
          /\ s[e] = "}"
       THEN [found |-> TRUE, group0 |-> SubSeq(s, i, e),
             group2 |-> SubSeq(s, j, k - 1), end |-> e + 1]
       ELSE NoMatch

\* placeholder_pattern matched at position i of s.  The three classes and the
\* braces are pairwise disjoint, so the greedy match is the only one.
placeholder_pattern(s, i) ==
    LET j == SkipWhile(s, i + 2, WhitespaceChars)
        k == SkipWhile(s, j, WordChars \cup {"."})
        e == SkipWhile(s, k, WhitespaceChars)
    IN IF /\ i + 1 <= Len(s)
          /\ s[i] = "{"
          /\ s[i + 1] = "{"
          /\ k > j
          /\ e + 1 <= Len(s)
          /\ s[e] = "}"
          /\ s[e + 1] = "}"
       THEN [found |-> TRUE, group0 |-> SubSeq(s, i, e + 1),
             group2 |-> SubSeq(s, j, k - 1), end |-> e + 2]
       ELSE NoMatch

---------------------------------------------------------------------------
(* _process_placeholder and _replace_placeholders                          *)

Returned(s) == [err |-> "none", out |-> s]
Raised(e) == [err |-> e, out |-> <<>>]

RECURSIVE WalkPartsEmptyOnMiss(_, _, _, _)
\* WalkParts with a missing key turned into the empty string
WalkPartsEmptyOnMiss(value, parts, i, original) ==
    IF i > Len(parts) THEN Returned(PyStr(value))
    ELSE IF value.t = "map" /\ HasKey(value.m, parts[i])
         THEN WalkPartsEmptyOnMiss(Get(value.m, parts[i]), parts, i + 1, original)
         ELSE Returned(<<>>)

RECURSIVE WalkParts(_, _, _, _)
\* the loop of lines 96-102: value is what the walk holds before parts[i]
WalkParts(value, parts, i, original) ==
    IF i > Len(parts) THEN Returned(PyStr(value))
    ELSE CASE value.t = "map" ->
                IF HasKey(value.m, parts[i])
                THEN WalkParts(Get(value.m, parts[i]), parts, i + 1, original)
                ELSE Returned(original)
           [] value.t = "str" ->
                \* `part in value` is a substring test; value[part] then raises
                IF IsSubstring(parts[i], value.s)
                THEN Raised("TypeError")
                ELSE Returned(original)
           [] value.t = "list" ->
                \* `part in value` compares elements; value[part] then raises
                IF \E j \in 1..Len(value.l) : value.l[j] = StrV(parts[i])
                THEN Raised("TypeError")
                ELSE Returned(original)
           [] value.t = "int" ->
                \* `part in value`: argument of type 'int' is not iterable
                Raised("TypeError")
           [] value.t = "none" ->
                \* `part in value`: argument of type 'NoneType' is not iterable
                Raised("TypeError")

\* process_placeholder without the dotted branch: every name is a flat key
ProcessPlaceholderFlatOnly(match, cfg) ==
    IF HasKey(cfg, match.group2)
    THEN Returned(PyStr(Get(cfg, match.group2)))
    ELSE Returned(match.group0)

process_placeholder(match, cfg) ==
    LET placeholder == match.group2
    IN IF \E i \in 1..Len(placeholder) : placeholder[i] = "."
       THEN WalkParts(MapV(cfg), Split(placeholder, "."), 1, match.group0)
       ELSE IF HasKey(cfg, placeholder)
            THEN Returned(PyStr(Get(cfg, placeholder)))
            ELSE Returned(match.group0)

RECURSIVE ResubOnce(_, _, _)
ResubOnce(s, i, cfg) ==
    IF i > Len(s) THEN <<>>
    ELSE LET match == placeholder_pattern(s, i)
         IN IF match.found /\ process_placeholder(match, cfg).err = "none"
            THEN process_placeholder(match, cfg).out \o ResubOnce(s, match.end, cfg)
            ELSE <<s[i]>> \o ResubOnce(s, i + 1, cfg)

\* SubAt with the replacement scanned again for tokens
SubAtRescanning(s, i, cfg) ==
    LET match == placeholder_pattern(s, i)
    IN IF match.found
       THEN LET r == process_placeholder(match, cfg)
            IN [err |-> r.err, out |-> ResubOnce(r.out, 1, cfg), next |-> match.end]
       ELSE [err |-> "none", out |-> <<s[i]>>, next |-> i + 1]

\* one iteration of re.sub at position i <= Len(s): the replacement of the match
\* that starts there, or the character copied, and where the scan goes on
SubAt(s, i, cfg) ==
    LET match == placeholder_pattern(s, i)
    IN IF match.found
       THEN LET r == process_placeholder(match, cfg)
            IN [err |-> r.err, out |-> r.out, next |-> match.end]
       ELSE [err |-> "none", out |-> <<s[i]>>, next |-> i + 1]

RECURSIVE SubFrom(_, _, _)
SubFrom(s, i, cfg) ==
    IF i > Len(s) THEN Returned(<<>>)
    ELSE LET r == SubAt(s, i, cfg)
         IN IF r.err # "none" THEN Raised(r.err)
            ELSE LET rest == SubFrom(s, r.next, cfg)
                 IN IF rest.err # "none" THEN rest ELSE Returned(r.out \o rest.out)

replace_placeholders(content, cfg) == SubFrom(content, 1, cfg)

---------------------------------------------------------------------------
(* Inputs of the resolver                                                  *)

MaxTextSegs == 3

Tok_a == <<"{", "{", "a", "}", "}">>
Tok_a_sp == <<"{", "{", " ", "a", " ", "}", "}">>
Tok_b == <<"{", "{", "b", "}", "}">>
Tok_x == <<"{", "{", "x", "}", "}">>
Tok_ab == <<"{", "{", "a", ".", "b", "}", "}">>
Tok_ab_sp == <<"{", "{", "a", ".", "b", " ", "}", "}">>
Tok_abc == <<"{", "{", "a", ".", "b", ".", "c", "}", "}">>
Tok_adot == <<"{", "{", "a", ".", "}", "}">>

Segments ==
    {<<"{">>, <<"}">>, <<" ">>, <<".">>, <<"a">>,
     Tok_a, Tok_a_sp, Tok_b, Tok_x, Tok_ab, Tok_ab_sp, Tok_abc, Tok_adot}

RECURSIVE TextsUpTo(_)
TextsUpTo(n) ==
    IF n = 0 THEN {<<>>}
    ELSE LET T == TextsUpTo(n - 1) IN T \cup {t \o s : t \in T, s \in Segments}

Texts == TextsUpTo(MaxTextSegs)

Ka == <<"a">>
Kb == <<"b">>
Kc == <<"c">>
Kx == <<"x">>

ResolverConfigs ==
    { <<>>,
      <<KV(Ka, StrV(<<"X">>))>>,
      <<KV(Ka, MapV(<<KV(Kb, StrV(<<"X">>))>>))>>,
      <<KV(Ka, MapV(<<KV(Kb, MapV(<<KV(Kc, IntV(42))>>))>>))>>,
      <<KV(Ka, IntV(42))>>,
      <<KV(Ka, StrV(<<"a", "b">>))>>,
      <<KV(Ka, StrV(<<"Z">>)), KV(Kb, IntV(-3))>>,
      <<KV(Ka, ListV(<<StrV(Kb)>>))>>,
      <<KV(Ka, ListV(<<>>))>>,
      <<KV(Kx, StrV(Tok_b)), KV(Kb, StrV(<<"Y">>))>>,
      <<KV(Ka, MapV(<<KV(Kb, StrV(Tok_a)), KV(Kc, IntV(7))>>)), KV(Kb, StrV(<<"Y">>))>>,
      <<KV(Ka, MapV(<<KV(Kb, StrV(<<>>))>>))>>,
      <<KV(Ka, MapV(<<>>))>> }

---------------------------------------------------------------------------
(* The resolver as a state machine: one call of replace_placeholders      *)

\* no generate_from_template call in the resolver's specification
GeneratorIdle ==
    /\ fsDirs = {<<>>}
    /\ fsFiles = <<>>
    /\ fs0 = [dirs |-> {<<>>}, files |-> <<>>]
    /\ schema = NoneV
    /\ phase = "NotStarted"
    /\ error = [type |-> "none", arg |-> <<>>]
    /\ walkStack = <<>>
    /\ root = <<>>
    /\ files = {}
    /\ visited = {}
    /\ opened = {}
    /\ copied = <<>>

\* no create_template_from_project call
CaptureIdle ==
    /\ exclude_paths = NoneV
    /\ denied = {}

\* one call, run by itself
SingleCall(op) ==
    /\ nested = FALSE
    /\ stage = "single"
    /\ alone = <<>>
    /\ current = op
    /\ parked = <<>>

ResolverIdle ==
    /\ rText = <<>>
    /\ rPos = 1
    /\ rOut = <<>>
    /\ rErr = "none"
    /\ rPc = "idle"

InitResolve ==
    /\ GeneratorIdle
    /\ CaptureIdle
    /\ SingleCall("none")
    /\ config \in ResolverConfigs
    /\ rText \in Texts
    /\ rPos = 1
    /\ rOut = <<>>
    /\ rErr = "none"
    /\ rPc = "scanning"

\* re.sub finds the next match, or copies one character
SubStep ==
    /\ rPc = "scanning"
    /\ rPos <= Len(rText)
    /\ LET r == SubAt(rText, rPos, config)
       IN IF r.err # "none"
          THEN /\ rErr' = r.err
               /\ rPc' = "raised"
               /\ UNCHANGED <<rPos, rOut>>
          ELSE /\ rOut' = rOut \o r.out
               /\ rPos' = r.next
               /\ UNCHANGED <<rErr, rPc>>
    /\ UNCHANGED <<config, rText>>
    /\ UNCHANGED genVars
    /\ UNCHANGED <<captureVars, schedVars>>

\* re.sub returns at the end of the text
SubReturn ==
    /\ rPc = "scanning"
    /\ rPos > Len(rText)
    /\ rPc' = "done"
    /\ UNCHANGED <<config, rText, rPos, rOut, rErr>>
    /\ UNCHANGED genVars
    /\ UNCHANGED <<captureVars, schedVars>>

NextResolve == SubStep \/ SubReturn

SpecResolve == InitResolve /\ [][NextResolve]_vars

\* the scan, step by step, computes replace_placeholders
ScanIsReplace ==
    /\ rPc = "done" => replace_placeholders(rText, config) = Returned(rOut)
    /\ rPc = "raised" => replace_placeholders(rText, config) = Raised(rErr)

---------------------------------------------------------------------------
(* Files: bytes, UTF-8 text, paths                                         *)
(*                                                                         *)
(* A byte below 0x80 is written as its character; "xC3", "xA9" and "xFF"   *)
(* are the bytes 0xC3, 0xA9 and 0xFF.  "U+E9" is the character whose UTF-8 *)
(* form is 0xC3 0xA9.  A path is the sequence of its names from the root   *)
(* of the file system; a name is text.                                     *)

HighBytes == {"xC3", "xA9", "xFF"}

RECURSIVE Utf8Decode(_, _)
\* bytes.decode("utf-8") from position i: the text, or a UnicodeDecodeError
Utf8Decode(b, i) ==
    IF i > Len(b) THEN Returned(<<>>)
    ELSE IF b[i] \notin HighBytes
         THEN LET rest == Utf8Decode(b, i + 1)
              IN IF rest.err # "none" THEN rest ELSE Returned(<<b[i]>> \o rest.out)
         ELSE IF b[i] = "xC3" /\ i < Len(b) /\ b[i + 1] = "xA9"
              THEN LET rest == Utf8Decode(b, i + 2)
                   IN IF rest.err # "none" THEN rest ELSE Returned(<<"U+E9">> \o rest.out)
              ELSE Raised("UnicodeDecodeError")

RECURSIVE UniversalNewlines(_, _)
\* text mode, newline=None, reading: "\r\n" and "\r" become "\n"
UniversalNewlines(t, i) ==
    IF i > Len(t) THEN <<>>
    ELSE IF t[i] = "\r"
         THEN <<"\n">> \o UniversalNewlines(t, IF i < Len(t) /\ t[i + 1] = "\n" THEN i + 2 ELSE i + 1)
         ELSE <<t[i]>> \o UniversalNewlines(t, i + 1)

RECURSIVE Utf8Encode(_, _)
\* str.encode("utf-8"); writing on POSIX leaves "\n" as it is
Utf8Encode(t, i) ==
    IF i > Len(t) THEN <<>>
    ELSE (IF t[i] = "U+E9" THEN <<"xC3", "xA9">> ELSE <<t[i]>>) \o Utf8Encode(t, i + 1)

\* open(path, encoding="utf-8").read()
ReadText(b) ==
    LET d == Utf8Decode(b, 1)
    IN IF d.err # "none" THEN d ELSE Returned(UniversalNewlines(d.out, 1))

Parent(p) == SubSeq(p, 1, Len(p) - 1)
Base(p) == p[Len(p)]
IsUnder(p, d) == Len(p) >= Len(d) /\ SubSeq(p, 1, Len(d)) = d
RelativeTo(p, d) == SubSeq(p, Len(d) + 1, Len(p))
Ancestors(p) == {SubSeq(p, 1, n) : n \in 0..Len(p)}

\* os.scandir(d): the names of the directories and of the files in d
ChildDirs(d, D) == {Base(p) : p \in {q \in D : Len(q) = Len(d) + 1 /\ Parent(q) = d}}
ChildFiles(d, F) == {Base(p) : p \in {q \in DOMAIN F : Len(q) = Len(d) + 1 /\ Parent(q) = d}}

WriteBytes(F, p, b) == [q \in DOMAIN F \cup {p} |-> IF q = p THEN b ELSE F[q]]

\* Path.mkdir(parents=True, exist_ok=True)
Mkdir(p, D, F) ==
    IF p \in DOMAIN F THEN [err |-> "FileExistsError", dirs |-> D]
    ELSE IF \E a \in Ancestors(p) : a \in DOMAIN F
         THEN [err |-> "NotADirectoryError", dirs |-> D]
         ELSE [err |-> "none", dirs |-> D \cup Ancestors(p)]

\* Path(dir) / name: the names of dir, then the components of name; an
\* absolute name replaces dir; empty and "." components are dropped
PathJoin(dir, name) ==
    LET comps == Split(name, "/")
        kept == SelectSeq(comps, LAMBDA c : c # <<>> /\ c # <<".">>)
    IN IF name # <<>> /\ name[1] = "/" THEN kept ELSE dir \o kept

RECURSIVE ResolveFrom(_, _, _, _, _)
\* the file the system opens for a path with ".." components: every component
\* before the last must lead to a directory
ResolveFrom(cur, comps, i, D, F) ==
    IF i > Len(comps) THEN [err |-> "none", path |-> cur]
    ELSE LET nxt == IF comps[i] = <<".", ".">>
                    THEN (IF cur = <<>> THEN cur ELSE Parent(cur))
                    ELSE Append(cur, comps[i])
         IN IF i = Len(comps) /\ comps[i] # <<".", ".">> THEN [err |-> "none", path |-> nxt]
            ELSE IF nxt \in D THEN ResolveFrom(nxt, comps, i + 1, D, F)
            ELSE IF nxt \in DOMAIN F THEN [err |-> "NotADirectoryError", path |-> nxt]
            ELSE [err |-> "FileNotFoundError", path |-> nxt]

Resolve(p, D, F) == ResolveFrom(<<>>, p, 1, D, F)

\* open(dst, "w", encoding="utf-8").write(text): the files afterwards
OpenWrite(dst, b, D, F) ==
    LET r == Resolve(dst, D, F)
    IN IF r.err # "none" THEN [err |-> r.err, files |-> F, path |-> r.path]
       ELSE IF r.path \in D THEN [err |-> "IsADirectoryError", files |-> F, path |-> r.path]
       ELSE IF Parent(r.path) \notin D
            THEN [err |-> IF Parent(r.path) \in DOMAIN F THEN "NotADirectoryError"
                          ELSE "FileNotFoundError",
                  files |-> F, path |-> r.path]
       ELSE [err |-> "none", files |-> WriteBytes(F, r.path, b), path |-> r.path]

\* shutil.copy2(src, dst): into dst when dst is a directory; the bytes are
\* copied as they are (the file's times and mode are not part of the model)
Copy2(src, dst, D, F) ==
    LET r == Resolve(dst, D, F)
    IN IF r.err = "none" /\ r.path \in D
       THEN OpenWrite(Append(r.path, Base(src)), F[src], D, F)
       ELSE OpenWrite(dst, F[src], D, F)

---------------------------------------------------------------------------
(* TemplateGenerator                                                       *)

N_schema == <<"s", "c", "h", "e", "m", "a", ".", "y", "a", "m", "l">>
K_required == <<"r", "e", "q", "u", "i", "r", "e", "d">>
K_description == <<"d", "e", "s", "c", "r", "i", "p", "t", "i", "o", "n">>
Kn == <<"n">>

\* self.template_dir and self.output_dir: the output directory is a directory
\* beside the template, or the directory o inside the template
template_dir == <<<<"t">>>>
output_dir == IF nested THEN <<<<"t">>, <<"o">>>> ELSE <<<<"o">>>>
schema_path == Append(template_dir, N_schema)

\* self.ignore_files
ignore_files ==
    { <<".", "g", "i", "t">>,
      <<".", "D", "S", "_", "S", "t", "o", "r", "e">>,
      <<"_", "_", "p", "y", "c", "a", "c", "h", "e", "_", "_">>,
      <<".", "p", "y", "c">>,
      <<"n", "o", "d", "e", "_", "m", "o", "d", "u", "l", "e", "s">>,
      <<".", "n", "e", "x", "t">>,
      <<".", "v", "e", "n", "v">>,
      <<".", "e", "n", "v">> }

\* the schema documents of the model, as the bytes of schema.yaml
SchemaEmpty == <<>>
SchemaDescription == <<"d", "e", "s", "c", "r", "i", "p", "t", "i", "o", "n", ":", " ", "d">>
SchemaRequiredN == <<"r", "e", "q", "u", "i", "r", "e", "d", ":", " ", "[", "n", "]">>
SchemaRequiredAN ==
    <<"r", "e", "q", "u", "i", "r", "e", "d", ":", " ", "[", "a", ",", " ", "n", "]">>

\* the schema create_template_from_project synthesizes
K_properties == <<"p", "r", "o", "p", "e", "r", "t", "i", "e", "s">>
K_type == <<"t", "y", "p", "e">>
K_project_name == <<"p", "r", "o", "j", "e", "c", "t", "_", "n", "a", "m", "e">>
K_project_description == <<"p", "r", "o", "j", "e", "c", "t", "_", "d", "e", "s", "c", "r", "i", "p", "t", "i", "o", "n">>

S_string == <<"s", "t", "r", "i", "n", "g">>

\* lines 235-246: the schema that is synthesized
SynthSchema ==
    MapV(<< KV(K_description,
               StrV(<<"T","e","m","p","l","a","t","e"," ","c","o","n","f","i",
                      "g","u","r","a","t","i","o","n"," ","s","c","h","e","m",
                      "a">>)),
            KV(K_required, ListV(<<StrV(K_project_name), StrV(K_project_description)>>)),
            KV(K_properties,
               MapV(<< KV(K_project_name,
                          MapV(<< KV(K_type, StrV(S_string)),
                                  KV(K_description,
                                     StrV(<<"N","a","m","e"," ","o","f"," ",
                                            "t","h","e"," ","p","r","o","j",
                                            "e","c","t">>)) >>)),
                       KV(K_project_description,
                          MapV(<< KV(K_type, StrV(S_string)),
                                  KV(K_description,
                                     StrV(<<"D","e","s","c","r","i","p","t",
                                            "i","o","n"," ","o","f"," ","t",
                                            "h","e"," ","p","r","o","j","e",
                                            "c","t">>)) >>)) >>)) >>)

\* the bytes yaml.dump(schema, f, default_flow_style=False) writes: block
\* style, the keys of each mapping sorted
SynthSchemaBytes ==
    <<"d","e","s","c","r","i","p","t","i","o","n",":"," ","T","e","m","p","l",
      "a","t","e"," ","c","o","n","f","i","g","u","r","a","t","i","o","n"," ",
      "s","c","h","e","m","a","\n","p","r","o","p","e","r","t","i","e","s",
      ":","\n"," "," ","p","r","o","j","e","c","t","_","d","e","s","c","r",
      "i","p","t","i","o","n",":","\n"," "," "," "," ","d","e","s","c","r",
      "i","p","t","i","o","n",":"," ","D","e","s","c","r","i","p","t","i","o",
      "n"," ","o","f"," ","t","h","e"," ","p","r","o","j","e","c","t","\n",
      " "," "," "," ","t","y","p","e",":"," ","s","t","r","i","n","g","\n",
      " "," ","p","r","o","j","e","c","t","_","n","a","m","e",":","\n"," ",
      " "," "," ","d","e","s","c","r","i","p","t","i","o","n",":"," ","N","a",
      "m","e"," ","o","f"," ","t","h","e"," ","p","r","o","j","e","c","t",
      "\n"," "," "," "," ","t","y","p","e",":"," ","s","t","r","i","n","g",
      "\n","r","e","q","u","i","r","e","d",":","\n","-"," ","p","r","o","j",
      "e","c","t","_","n","a","m","e","\n","-"," ","p","r","o","j","e","c",
      "t","_","d","e","s","c","r","i","p","t","i","o","n","\n">>

\* line 250: yaml.dump, of the one document the code dumps
yaml_dump(value) == IF value = SynthSchema THEN SynthSchemaBytes ELSE <<>>

\* yaml.safe_load, on the schema documents of the model
yaml_safe_load(b) ==
    CASE b = SchemaEmpty -> NoneV
      [] b = SchemaDescription -> MapV(<<KV(K_description, StrV(<<"d">>))>>)
      [] b = SchemaRequiredN -> MapV(<<KV(K_required, ListV(<<StrV(Kn)>>))>>)
      [] b = SchemaRequiredAN -> MapV(<<KV(K_required, ListV(<<StrV(Ka), StrV(Kn)>>))>>)
      [] b = SynthSchemaBytes -> SynthSchema

\* lines 56-57: self.schema
load_schema(F) == IF schema_path \in DOMAIN F THEN yaml_safe_load(F[schema_path]) ELSE MapV(<<>>)

\* `not value`, for the values a schema can be
Falsy(value) == value.t = "none" \/ (value.t = "map" /\ value.m = <<>>)

\* _validate_config with every required field taken as present
ValidateNothing(sch, cfg) == [type |-> "none", arg |-> <<>>]

\* _validate_config that takes a required field bound to an empty value as missing
ValidateTruthy(sch, cfg) ==
    IF Falsy(sch) \/ ~HasKey(sch.m, K_required) THEN [type |-> "none", arg |-> <<>>]
    ELSE LET required == Get(sch.m, K_required).l
             empty == {NoneV, StrV(<<>>), IntV(0), MapV(<<>>), ListV(<<>>)}
             missing == {i \in 1..Len(required) :
                            \/ ~HasKey(cfg, required[i].s)
                            \/ Get(cfg, required[i].s) \in empty}
         IN IF missing = {} THEN [type |-> "none", arg |-> <<>>]
            ELSE [type |-> "ValueError",
                  arg |-> required[CHOOSE i \in missing : \A j \in missing : i <= j].s]

\* _validate_config: the exception raised, naming the first missing field
validate_config(sch, cfg) ==
    IF Falsy(sch) \/ ~HasKey(sch.m, K_required) THEN [type |-> "none", arg |-> <<>>]
    ELSE LET required == Get(sch.m, K_required).l
             missing == {i \in 1..Len(required) : ~HasKey(cfg, required[i].s)}
         IN IF missing = {} THEN [type |-> "none", arg |-> <<>>]
            ELSE [type |-> "ValueError",
                  arg |-> required[CHOOSE i \in missing : \A j \in missing : i <= j].s]

\* _should_ignore_file with the first pattern only
ShouldIgnoreGitOnly(name) == IsSubstring(<<".", "g", "i", "t">>, name)

\* _should_ignore_file(Path(name)): str() of the path of a bare name is the name
should_ignore_file(name) == \E pattern \in ignore_files : IsSubstring(pattern, name)

\* _process_filename that leaves the name as it is
ProcessFilenameVerbatim(filename, cfg) == Returned(filename)

process_filename(filename, cfg) == replace_placeholders(filename, cfg)

\* _process_file that treats every file as text, undecodable bytes dropped
ProcessFileTextOnly(src, dst, D, F, cfg) ==
    LET text == SelectSeq(F[src], LAMBDA c : c \notin HighBytes)
        w == OpenWrite(dst, Utf8Encode(replace_placeholders(text, cfg).out, 1), D, F)
    IN [err |-> w.err, files |-> w.files, path |-> w.path, mode |-> "text"]

\* _process_file: the exception that escapes or the files afterwards, the
\* file written and whether it was written as text or copied
process_file(src, dst, D, F, cfg) ==
    LET content == ReadText(F[src])
    IN IF content.err = "UnicodeDecodeError"
       THEN LET c == Copy2(src, dst, D, F)
            IN [err |-> c.err, files |-> c.files, path |-> c.path, mode |-> "binary"]
       ELSE LET processed == replace_placeholders(content.out, cfg)
            IN IF processed.err # "none"
               THEN [err |-> processed.err, files |-> F, path |-> dst, mode |-> "text"]
               ELSE LET w == OpenWrite(dst, Utf8Encode(processed.out, 1), D, F)
                    IN [err |-> w.err, files |-> w.files, path |-> w.path, mode |-> "text"]

---------------------------------------------------------------------------
(* Inputs of generate_from_template: the template tree, the configuration  *)
(* and what the output directory holds before the call                     *)

MaxEntries == 3

N_d == <<"d">>
N_e == <<"e">>
N_h == <<"h">>
N_git == <<".", "g", "i", "t">>
N_pycache == <<"_", "_", "p", "y", "c", "a", "c", "h", "e", "_", "_">>
N_token_md == <<"{", "{", "n", "}", "}", ".", "m", "d">>
N_Foo_md == <<"F", "o", "o", ".", "m", "d">>
N_logo == <<"l", "o", "g", "o">>
N_x_pyc == <<"x", ".", "p", "y", "c">>
N_bad == <<"b", "a", "d">>

TextHi == <<"{", "{", "n", "}", "}", "!">>
TextPlain == <<"F">>
TextAccent == <<"xC3", "xA9", "\r", "\n">>
TextBad == <<"{", "{", "n", ".", "o", "}", "}">>
BinLogo == <<"xFF", "{", "{", "n", "}", "}">>

FileE(path, bytes) == [path |-> path, dir |-> FALSE, bytes |-> bytes]
DirE(path) == [path |-> path, dir |-> TRUE, bytes |-> <<>>]

\* the entries a template is made of, by their path under the template root
Entries ==
    { FileE(<<N_token_md>>, TextHi),
      FileE(<<N_Foo_md>>, TextPlain),
      FileE(<<N_logo>>, BinLogo),
      FileE(<<N_bad>>, TextBad),
      FileE(<<N_d, <<"m">>>>, TextAccent),
      FileE(<<N_d, N_schema>>, SchemaRequiredN),
      FileE(<<N_d, N_x_pyc>>, BinLogo),
      FileE(<<N_d, N_pycache, <<"m">>>>, TextHi),
      FileE(<<N_git, <<"c">>>>, TextHi),
      FileE(<<N_git, N_h, N_token_md>>, BinLogo),
      DirE(<<N_e>>) }

RECURSIVE SubsetsUpTo(_, _)
\* the subsets of S of at most n elements
SubsetsUpTo(S, n) ==
    IF n = 0 THEN {{}}
    ELSE LET T == SubsetsUpTo(S, n - 1) IN T \cup {t \cup {x} : t \in T, x \in S}

Templates == SubsetsUpTo(Entries, MaxEntries)

SchemaChoices == {SchemaEmpty, SchemaDescription, SchemaRequiredN, SchemaRequiredAN}

GenConfigs ==
    { <<>>,
      <<KV(Kn, StrV(<<"F", "o", "o">>))>>,
      <<KV(Ka, IntV(42)), KV(Kn, StrV(<<"F", "o", "o">>))>> }

\* the directories and the files of a template made of entries E, with the
\* root schema file of bytes sch (sch = <<"absent">>: no schema file)
TemplateDirs(E) ==
    UNION {{template_dir \o a : a \in Ancestors(IF e.dir THEN e.path ELSE Parent(e.path))}
           : e \in E} \cup Ancestors(template_dir)

TemplateFilePaths(E, sch) ==
    {template_dir \o e.path : e \in {x \in E : ~x.dir}}
    \cup (IF sch = <<"absent">> THEN {} ELSE {schema_path})

TemplateFiles(E, sch) ==
    [p \in TemplateFilePaths(E, sch) |->
        IF p = schema_path THEN sch
        ELSE (CHOOSE e \in E : ~e.dir /\ template_dir \o e.path = p).bytes]

\* the output directory before the call: absent, or holding an older Foo.md,
\* or holding a directory named logo
OutputBefore ==
    { [dirs |-> {}, files |-> <<>>],
      [dirs |-> {output_dir},
       files |-> [p \in {Append(output_dir, N_Foo_md)} |-> <<"o", "l", "d">>]],
      [dirs |-> {output_dir, Append(output_dir, N_logo)}, files |-> <<>>] }

Merge(F, G) == [p \in DOMAIN F \cup DOMAIN G |-> IF p \in DOMAIN F THEN F[p] ELSE G[p]]

\* a resolved name that leaves the output directory and enters the template
EscapeConfigs ==
    { <<KV(Kn, StrV(<<".", ".", "/", "t", "/", "F", "o", "o">>))>> }

\* the states generate_from_template can be called in, with a config of C
InitGenerateWith(C) ==
    /\ ResolverIdle
    /\ CaptureIdle
    /\ SingleCall("generate")
    /\ config \in C
    /\ \E E \in Templates, sch \in SchemaChoices \cup {<<"absent">>}, out \in OutputBefore,
          present \in BOOLEAN :
          /\ ~present => (E = {} /\ sch = <<"absent">>)
          /\ fsDirs = {<<>>} \cup out.dirs \cup (IF present THEN TemplateDirs(E) ELSE {})
          /\ fsFiles = Merge(out.files, IF present THEN TemplateFiles(E, sch) ELSE <<>>)
    /\ fs0 = [dirs |-> fsDirs, files |-> fsFiles]
    /\ schema = NoneV
    /\ phase = "NotStarted"
    /\ error = [type |-> "none", arg |-> <<>>]
    /\ walkStack = <<>>
    /\ root = <<>>
    /\ files = {}
    /\ visited = {}
    /\ opened = {}
    /\ copied = <<>>

InitGenerate == InitGenerateWith(GenConfigs)

InitEscape == InitGenerateWith(GenConfigs \cup EscapeConfigs)

\* configs for validation: required keys bound to None, to the empty string,
\* to zero and to a mapping; keys no schema mentions; required names that
\* occur below the top level only
ValidationConfigs ==
    GenConfigs \cup
    { <<KV(Kn, NoneV)>>,
      <<KV(Kn, StrV(<<>>))>>,
      <<KV(Ka, IntV(0))>>,
      <<KV(Kx, MapV(<<KV(Ka, IntV(1)), KV(Kn, StrV(<<"F">>))>>))>>,
      <<KV(Kn, MapV(<<>>)), KV(Kx, IntV(1)), KV(Ka, NoneV)>> }

InitValidation == InitGenerateWith(ValidationConfigs)

---------------------------------------------------------------------------
(* generate_from_template as a state machine                               *)

NoError == [type |-> "none", arg |-> <<>>]
Exception(type) == [type |-> type, arg |-> <<>>]

\* the exception is swallowed and the call goes on
FailSwallowed(e) ==
    /\ phase' = phase
    /\ error' = error

\* the exception leaves generate_from_template
Fail(e) ==
    /\ phase' = "Failed"
    /\ error' = e

\* the call constructed with no validation of the config
CallSkippingValidation ==
    /\ phase = "NotStarted"
    /\ schema' = load_schema(fsFiles)
    /\ phase' = "Validated"
    /\ UNCHANGED <<config, fsDirs, fsFiles, fs0, error>>
    /\ UNCHANGED walkVars
    /\ UNCHANGED resolverVars
    /\ UNCHANGED <<captureVars, schedVars>>

\* line 191, lines 36-57: the generator is constructed and the schema loaded
Call ==
    /\ phase = "NotStarted"
    /\ schema' = load_schema(fsFiles)
    /\ phase' = "Validating"
    /\ UNCHANGED <<config, fsDirs, fsFiles, fs0, error>>
    /\ UNCHANGED walkVars
    /\ UNCHANGED resolverVars
    /\ UNCHANGED <<captureVars, schedVars>>

\* line 60: _validate_config
Validate ==
    /\ phase = "Validating"
    /\ LET e == validate_config(schema, config)
       IN IF e.type # "none" THEN Fail(e)
          ELSE phase' = "Validated" /\ UNCHANGED error
    /\ UNCHANGED <<config, fsDirs, fsFiles, fs0, schema>>
    /\ UNCHANGED walkVars
    /\ UNCHANGED resolverVars
    /\ UNCHANGED <<captureVars, schedVars>>

\* generate with the output directory created before the template is looked for
GenerateBeginMkdirFirst ==
    /\ phase = "Validated"
    /\ LET m == Mkdir(output_dir, fsDirs, fsFiles)
       IN IF m.err # "none"
          THEN Fail(Exception(m.err)) /\ UNCHANGED <<fsDirs, walkStack>>
          ELSE /\ fsDirs' = m.dirs
               /\ IF template_dir \notin fsDirs
                  THEN Fail(Exception("FileNotFoundError")) /\ UNCHANGED walkStack
                  ELSE /\ walkStack' = <<{template_dir}>>
                       /\ phase' = "Walking"
                       /\ UNCHANGED error
    /\ UNCHANGED <<config, fsFiles, fs0, schema, root, files, visited, opened, copied>>
    /\ UNCHANGED resolverVars
    /\ UNCHANGED <<captureVars, schedVars>>

\* lines 139-146: the template must exist; the output directory is created
\* and os.walk starts at the template directory
GenerateBegin ==
    /\ phase = "Validated"
    /\ IF template_dir \notin fsDirs
       THEN Fail(Exception("FileNotFoundError")) /\ UNCHANGED <<fsDirs, walkStack>>
       ELSE LET m == Mkdir(output_dir, fsDirs, fsFiles)
            IN IF m.err # "none"
               THEN Fail(Exception(m.err)) /\ UNCHANGED <<fsDirs, walkStack>>
               ELSE /\ fsDirs' = m.dirs
                    /\ walkStack' = <<{template_dir}>>
                    /\ phase' = "Walking"
                    /\ UNCHANGED error
    /\ UNCHANGED <<config, fsFiles, fs0, schema, root, files, visited, opened, copied>>
    /\ UNCHANGED resolverVars
    /\ UNCHANGED <<captureVars, schedVars>>

RECURSIVE DropEmpty(_)
\* os.walk returns from the levels that have no directory left
DropEmpty(stack) ==
    IF stack # <<>> /\ stack[Len(stack)] = {} THEN DropEmpty(SubSeq(stack, 1, Len(stack) - 1))
    ELSE stack

\* the directories of `dirs` that line 152 keeps
KeptDirs(names) == {n \in names : ~should_ignore_file(n)}

\* lines 148-149 left out
FilesListedAll(d, names) == names

\* the files of `files` after lines 148-149, in directory d
FilesListed(d, names) == IF d = template_dir THEN names \ {N_schema} ELSE names

\* VisitDir with the directory yielded left among those still to be walked
VisitDirKeepingPending ==
    /\ phase = "Walking"
    /\ files = {}
    /\ walkStack # <<>>
    /\ \E d \in walkStack[Len(walkStack)] :
          LET below == {Append(d, n) : n \in KeptDirs(ChildDirs(d, fsDirs))}
              target_dir == output_dir \o RelativeTo(d, template_dir)
              m == Mkdir(target_dir, fsDirs, fsFiles)
          IN /\ visited' = visited \cup {d}
             /\ root' = d
             /\ IF m.err # "none"
                THEN Fail(Exception(m.err)) /\ UNCHANGED <<fsDirs, walkStack, files>>
                ELSE /\ fsDirs' = m.dirs
                     /\ files' = FilesListed(d, ChildFiles(d, fsFiles))
                     /\ walkStack' = DropEmpty(Append(walkStack, below))
                     /\ UNCHANGED <<phase, error>>
    /\ UNCHANGED <<config, fsFiles, fs0, schema, opened, copied>>
    /\ UNCHANGED resolverVars
    /\ UNCHANGED <<captureVars, schedVars>>

\* lines 146-159: os.walk lists the next directory d, in any order among its
\* siblings, and yields it; the loop body prunes d's directories and creates
\* the target directory
VisitDir ==
    /\ phase = "Walking"
    /\ files = {}
    /\ walkStack # <<>>
    /\ \E d \in walkStack[Len(walkStack)] :
          LET below == {Append(d, n) : n \in KeptDirs(ChildDirs(d, fsDirs))}
              rest == [walkStack EXCEPT ![Len(walkStack)] = @ \ {d}]
              target_dir == output_dir \o RelativeTo(d, template_dir)
              m == Mkdir(target_dir, fsDirs, fsFiles)
          IN /\ visited' = visited \cup {d}
             /\ root' = d
             /\ IF m.err # "none"
                THEN Fail(Exception(m.err)) /\ UNCHANGED <<fsDirs, walkStack, files>>
                ELSE /\ fsDirs' = m.dirs
                     /\ files' = FilesListed(d, ChildFiles(d, fsFiles))
                     /\ walkStack' = DropEmpty(Append(rest, below))
                     /\ UNCHANGED <<phase, error>>
    /\ UNCHANGED <<config, fsFiles, fs0, schema, opened, copied>>
    /\ UNCHANGED resolverVars
    /\ UNCHANGED <<captureVars, schedVars>>

\* lines 162-175: one file of `files`, in any order
ProcessFile ==
    /\ phase = "Walking"
    /\ files # {}
    /\ \E file \in files :
          /\ files' = files \ {file}
          /\ IF should_ignore_file(file)
             THEN UNCHANGED <<fsFiles, phase, error, opened, copied>>
             ELSE LET src_file == Append(root, file)
                      target_dir == output_dir \o RelativeTo(root, template_dir)
                      processed_filename == process_filename(file, config)
                      dst_file == PathJoin(target_dir, processed_filename.out)
                      r == process_file(src_file, dst_file, fsDirs, fsFiles, config)
                  IN /\ opened' = opened \cup {src_file}
                     /\ IF processed_filename.err # "none"
                        THEN /\ Fail(Exception(processed_filename.err))
                             /\ UNCHANGED <<fsFiles, copied>>
                        ELSE IF r.err # "none"
                        THEN Fail(Exception(r.err)) /\ UNCHANGED <<fsFiles, copied>>
                        ELSE /\ fsFiles' = r.files
                             /\ copied' = Append(copied, [src |-> src_file,
                                                          dst |-> r.path,
                                                          mode |-> r.mode])
                             /\ UNCHANGED <<phase, error>>
    /\ UNCHANGED <<config, fsDirs, fs0, schema, walkStack, root, visited>>
    /\ UNCHANGED resolverVars
    /\ UNCHANGED <<captureVars, schedVars>>

\* os.walk is exhausted: generate returns
Return ==
    /\ phase = "Walking"
    /\ files = {}
    /\ walkStack = <<>>
    /\ phase' = "Done"
    /\ UNCHANGED <<config, fsDirs, fsFiles, fs0, schema, error>>
    /\ UNCHANGED walkVars
    /\ UNCHANGED resolverVars
    /\ UNCHANGED <<captureVars, schedVars>>

Next == Call \/ Validate \/ GenerateBegin \/ VisitDir \/ ProcessFile \/ Return

Spec == InitGenerate /\ [][Next]_vars

\* the same call, the configurations with an escaping name included
SpecEscape == InitEscape /\ [][Next]_vars

\* generate_from_template over the configs for validation
SpecValidation == InitValidation /\ [][Next]_vars

---------------------------------------------------------------------------
(* Claims about the resolver, under SpecResolve                            *)

\* the match of the pattern where the scan stands
TokenHere == placeholder_pattern(rText, rPos)
OnToken == rPc = "scanning" /\ rPos <= Len(rText) /\ TokenHere.found
OffToken == rPc = "scanning" /\ rPos <= Len(rText) /\ ~TokenHere.found

IsDotted(name) == \E i \in 1..Len(name) : name[i] = "."

RECURSIVE PathAbsent(_, _)
\* walking parts through nested mappings, some component is absent at its level
PathAbsent(m, parts) ==
    /\ parts # <<>>
    /\ \/ ~HasKey(m, parts[1])
       \/ /\ Len(parts) > 1
          /\ Get(m, parts[1]).t = "map"
          /\ PathAbsent(Get(m, parts[1]).m, Tail(parts))

Unresolvable(name, cfg) ==
    IF IsDotted(name) THEN PathAbsent(cfg, Split(name, ".")) ELSE ~HasKey(cfg, name)

RECURSIVE FullyPresent(_, _)
\* every component of parts is present, each but the last bound to a mapping
FullyPresent(m, parts) ==
    /\ parts # <<>>
    /\ HasKey(m, parts[1])
    /\ \/ Len(parts) = 1
       \/ /\ Get(m, parts[1]).t = "map"
          /\ FullyPresent(Get(m, parts[1]).m, Tail(parts))

RECURSIVE Lookup(_, _)
Lookup(m, parts) ==
    IF Len(parts) = 1 THEN Get(m, parts[1])
    ELSE Lookup(Get(m, parts[1]).m, Tail(parts))

Resolvable(name, cfg) ==
    IF IsDotted(name) THEN FullyPresent(cfg, Split(name, ".")) ELSE HasKey(cfg, name)

ValueAt(name, cfg) ==
    IF IsDotted(name) THEN Lookup(cfg, Split(name, ".")) ELSE Get(cfg, name)

RECURSIVE NonMappingOnPath(_, _)
\* some component before the last is present and bound to a value that is no mapping
NonMappingOnPath(m, parts) ==
    /\ Len(parts) > 1
    /\ HasKey(m, parts[1])
    /\ \/ Get(m, parts[1]).t # "map"
       \/ NonMappingOnPath(Get(m, parts[1]).m, Tail(parts))

\* C3: a token whose flat key is absent, or whose dotted path has a component
\* absent at its level of the nested mappings, is copied to the output exactly
\* as matched; the step does not raise and never yields the empty string.
C3_UnresolvedLeftUntouched ==
    [][ (OnToken /\ Unresolvable(TokenHere.group2, config))
        => /\ rErr' = "none"
           /\ rPc' = "scanning"
           /\ rOut' = rOut \o TokenHere.group0
           /\ TokenHere.group0 # <<>>
           /\ rPos' = TokenHere.end ]_vars

C3_Witness ==
    /\ rPc = "done"
    /\ config = <<KV(Ka, MapV(<<>>))>>
    /\ rText = <<"a">> \o Tok_ab_sp \o Tok_x
    /\ rOut = rText

\* C4 (as claimed): a dotted token with an intermediate value that exists but
\* is no mapping is left in the output unchanged, and the step does not raise.
C4_NonMappingLeavesToken ==
    [][ (/\ OnToken
         /\ IsDotted(TokenHere.group2)
         /\ NonMappingOnPath(config, Split(TokenHere.group2, ".")))
        => /\ rErr' = "none"
           /\ rPc' = "scanning"
           /\ rOut' = rOut \o TokenHere.group0 ]_vars

\* C5: a token whose flat key is present, or whose dotted path is fully present
\* through nested mappings, is replaced by str() of the value found there
\* (an int as decimal text); a character outside tokens is copied unchanged.
C5_LookupFidelity ==
    /\ [][ /\ (OnToken /\ Resolvable(TokenHere.group2, config))
              => /\ rErr' = "none"
                 /\ rOut' = rOut \o PyStr(ValueAt(TokenHere.group2, config))
                 /\ rPos' = TokenHere.end
           /\ OffToken
              => /\ rErr' = "none"
                 /\ rOut' = rOut \o <<rText[rPos]>>
                 /\ rPos' = rPos + 1 ]_vars
    /\ [](/\ rPc = "done"
          /\ rText = <<".">> \o Tok_abc \o <<"}">>
          /\ config = <<KV(Ka, MapV(<<KV(Kb, MapV(<<KV(Kc, IntV(42))>>))>>))>>
          => rOut = <<".", "4", "2", "}">>)

C5_Witness ==
    /\ rPc = "done"
    /\ rText = Tok_b \o Tok_abc \o <<"}">>
    /\ config = <<KV(Ka, MapV(<<KV(Kb, MapV(<<KV(Kc, IntV(42))>>))>>))>>
    /\ rOut = Tok_b \o <<"4", "2", "}">>

IsPrefix(p, s) == Len(p) <= Len(s) /\ SubSeq(s, 1, Len(p)) = p

\* rText is exactly one token
SingleToken ==
    placeholder_pattern(rText, 1).found /\ placeholder_pattern(rText, 1).end = Len(rText) + 1

\* C6: substituted text is never scanned again: a text that is one token bound
\* to a string yields that string literally, also when it holds placeholder
\* syntax; every step of the pass moves forward in the input and only appends
\* to the output, so the pass ends after at most Len(rText) steps.
C6_NonReentrant ==
    /\ [](/\ rPc = "done"
          /\ SingleToken
          /\ Resolvable(placeholder_pattern(rText, 1).group2, config)
          /\ ValueAt(placeholder_pattern(rText, 1).group2, config).t = "str"
          => rOut = ValueAt(placeholder_pattern(rText, 1).group2, config).s)
    /\ [](rPos <= Len(rText) + 1)
    /\ [][ rPc = "scanning" /\ rPos <= Len(rText)
           => /\ IsPrefix(rOut, rOut')
              /\ rPc' = "scanning" => rPos' > rPos ]_vars

C6_Witness ==
    /\ rPc = "done"
    /\ rText = Tok_x
    /\ config = <<KV(Kx, StrV(Tok_b)), KV(Kb, StrV(<<"Y">>))>>
    /\ rOut = Tok_b

\* positions a..b-1 of s all hold characters of class
AllIn(s, a, b, class) == \A p \in a..(b - 1) : s[p] \in class

\* s has a substring of the form: two opening braces, optional whitespace, an
\* identifier of word characters and dots, optional whitespace, two closing
\* braces
HasPlaceholderForm(s) ==
    \E a \in 1..Len(s) :
        /\ a + 1 <= Len(s)
        /\ s[a] = "{"
        /\ s[a + 1] = "{"
        /\ \E b \in (a + 2)..Len(s) :
              /\ AllIn(s, a + 2, b, WhitespaceChars)
              /\ \E c \in (b + 1)..Len(s) :
                    /\ AllIn(s, b, c, WordChars \cup {"."})
                    /\ \E d \in c..(Len(s) - 1) :
                          /\ AllIn(s, c, d, WhitespaceChars)
                          /\ s[d] = "}"
                          /\ s[d + 1] = "}"

\* C21: on a text with no substring of the placeholder form the pass never
\* raises, copies one character at every step, and returns the text itself,
\* whatever the config holds.
C21_PlainTextUnchanged ==
    ~HasPlaceholderForm(rText)
    => /\ rErr = "none"
       /\ rPc # "raised"
       /\ rOut = SubSeq(rText, 1, rPos - 1)
       /\ rPc = "done" => rOut = rText

C21_Witness ==
    /\ rPc = "done"
    /\ rText = <<"{", "a", "}">>
    /\ config = <<KV(Ka, StrV(<<"X">>))>>
    /\ rOut = rText

---------------------------------------------------------------------------
(* Claims about generate_from_template, under Spec                         *)

\* the required keys of the schema documents, read off the documents
RequiredOf(b) ==
    CASE b = SchemaRequiredN -> {Kn}
      [] b = SchemaRequiredAN -> {Ka, Kn}
      [] OTHER -> {}

\* the template's schema lists a required key that the config lacks
MissingRequiredKey ==
    /\ schema_path \in DOMAIN fs0.files
    /\ \E key \in RequiredOf(fs0.files[schema_path]) : ~HasKey(config, key)

\* C1: when the schema lists a required key absent from the top level of the
\* config, the call fails with the missing-field error (ValueError) and the
\* file system stays as it was: the output directory is not created and
\* nothing is created or changed.
C1_ValidationGate ==
    MissingRequiredKey
    => /\ phase \in {"NotStarted", "Validating", "Failed"}
       /\ phase = "Failed" => error.type = "ValueError"
       /\ fsDirs = fs0.dirs
       /\ fsFiles = fs0.files

C1_Witness ==
    /\ phase = "Failed"
    /\ error.type = "ValueError"
    /\ MissingRequiredKey
    /\ config = <<>>
    /\ output_dir \notin fsDirs
    /\ Append(template_dir, N_logo) \in DOMAIN fsFiles

\* bytes that are no UTF-8 text, by the form of the bytes
Undecodable(b) ==
    \E i \in 1..Len(b) :
        \/ b[i] = "xFF"
        \/ b[i] = "xC3" /\ (i = Len(b) \/ b[i + 1] # "xA9")
        \/ b[i] = "xA9" /\ (i = 1 \/ b[i - 1] # "xC3")

\* the source file the step took up, if it took one
TakenUp(src) == src \in opened' /\ src \notin opened

IoErrors == {"FileNotFoundError", "NotADirectoryError", "IsADirectoryError", "FileExistsError"}

\* C2: the step that takes up a file whose bytes are not UTF-8 writes a file
\* with exactly the source's bytes (tokens in them are not substituted) and
\* the walk goes on; a decode failure never leaves the call; every file
\* copied that way still holds the source's bytes unless written again.
C2_BinarySafety ==
    /\ [](error.type # "UnicodeDecodeError")
    /\ [](\A i \in 1..Len(copied) :
            Undecodable(fsFiles[copied[i].src])
            => /\ copied[i].mode = "binary"
               /\ (\A j \in (i + 1)..Len(copied) : copied[j].dst # copied[i].dst)
                  => fsFiles[copied[i].dst] = fsFiles[copied[i].src])
    /\ [][ \A src \in DOMAIN fsFiles :
             (TakenUp(src) /\ Undecodable(fsFiles[src])
              /\ process_filename(Base(src), config).err = "none")
             => \/ /\ phase' = "Walking"
                   /\ error' = error
                   /\ Len(copied') = Len(copied) + 1
                   /\ copied'[Len(copied')].src = src
                   /\ copied'[Len(copied')].mode = "binary"
                   /\ fsFiles'[copied'[Len(copied')].dst] = fsFiles[src]
                \/ /\ phase' = "Failed"
                   /\ error'.type \in IoErrors
                   /\ fsFiles' = fsFiles ]_vars

C2_Witness ==
    /\ phase = "Done"
    /\ HasKey(config, Kn)
    /\ Append(output_dir, N_logo) \in DOMAIN fsFiles
    /\ fsFiles[Append(output_dir, N_logo)] = BinLogo
    /\ \E i \in 1..Len(copied) : copied[i].mode = "binary" /\ i < Len(copied)

\* the template directory is d, given by its path under the template root
RelOf(p) == RelativeTo(p, template_dir)

\* the destination of template file src: its directory mirrored under the
\* output directory, its name resolved
ExpectedDst(src) ==
    PathJoin(output_dir \o RelOf(Parent(src)), replace_placeholders(Base(src), config).out)

\* the bytes of the resolved text of template file src
ExpectedBytes(src) ==
    Utf8Encode(replace_placeholders(ReadText(fsFiles[src]).out, config).out, 1)

HasToken(name) == \E i \in 1..Len(name) : placeholder_pattern(name, i).found

RECURSIVE PathString(_)
\* str() of a relative path: its names joined by "/"
PathString(rel) ==
    IF rel = <<>> THEN <<>>
    ELSE IF Len(rel) = 1 THEN rel[1]
    ELSE rel[1] \o <<"/">> \o PathString(Tail(rel))

\* an ignore-set entry occurs in the entry's path under the template root
Ignored(p) == \E pattern \in ignore_files : IsSubstring(pattern, PathString(RelOf(p)))

TemplateEntries == {p \in fs0.dirs \cup DOMAIN fs0.files : IsUnder(p, template_dir)}

\* C8: no template entry with an ignore-set entry in its path is ever listed,
\* taken up or copied, the run creates nothing for it in the output, and
\* nothing below a matching directory is listed or taken up; so no error
\* comes from a file inside it.
C8_IgnoreSetPruning ==
    \A p \in TemplateEntries :
        Ignored(p)
        => /\ p \notin visited
           /\ p \notin opened
           /\ \A i \in 1..Len(copied) : copied[i].src # p
           /\ (output_dir \o RelOf(p)) \notin (fsDirs \ fs0.dirs)
           /\ (output_dir \o RelOf(p)) \notin (DOMAIN fsFiles \ DOMAIN fs0.files)
           /\ \A q \in TemplateEntries :
                IsUnder(q, p) => q \notin visited /\ q \notin opened

C8_Witness ==
    /\ phase = "Done"
    /\ <<<<"t">>, N_git, N_h, N_token_md>> \in DOMAIN fsFiles
    /\ <<<<"t">>, N_d, N_x_pyc>> \in DOMAIN fsFiles
    /\ <<<<"t">>, N_d>> \in visited
    /\ Len(copied) = 1

NonPrunedDirs == {d \in fs0.dirs : IsUnder(d, template_dir) /\ ~Ignored(d)}

ExpectedFiles ==
    {f \in DOMAIN fs0.files :
        IsUnder(f, template_dir) /\ ~Ignored(f) /\ f # schema_path}

\* C9 (as claimed): after a successful generate the directories created are
\* the mirrors of the non-pruned template directories, the files written are
\* exactly D / resolve(N) for the non-ignored files N of the non-pruned
\* directories D other than the root schema file, and nothing else is
\* created or changed.
C9_MirrorsTemplate ==
    phase = "Done"
    => /\ fsDirs = fs0.dirs \cup Ancestors(output_dir)
                   \cup {output_dir \o RelOf(d) : d \in NonPrunedDirs}
       /\ DOMAIN fsFiles = DOMAIN fs0.files \cup {ExpectedDst(f) : f \in ExpectedFiles}
       /\ \A p \in DOMAIN fs0.files \ {ExpectedDst(f) : f \in ExpectedFiles} :
             fsFiles[p] = fs0.files[p]

\* C10: the schema file at the template root is never taken up or copied,
\* and a schema.yaml at the output root comes from another source or was
\* there before.
C10_SchemaNeverCopied ==
    /\ schema_path \notin opened
    /\ \A i \in 1..Len(copied) : copied[i].src # schema_path
    /\ Append(output_dir, N_schema) \in DOMAIN fsFiles
       => \/ Append(output_dir, N_schema) \in DOMAIN fs0.files
          \/ \E i \in 1..Len(copied) :
                copied[i].dst = Append(output_dir, N_schema) /\ copied[i].src # schema_path

C10_Witness ==
    /\ phase = "Done"
    /\ schema_path \in DOMAIN fsFiles
    /\ fsFiles[schema_path] = SchemaEmpty
    /\ <<<<"o">>, N_d, N_schema>> \in DOMAIN fsFiles
    /\ Append(output_dir, N_schema) \notin DOMAIN fsFiles
    /\ Len(copied) = 3

\* C11: when the template directory does not exist, the call fails with the
\* template-not-found error (FileNotFoundError) whatever the config is, and
\* the file system stays as it was: neither the output directory nor
\* anything under it has been created.
C11_TemplateNotFoundFirst ==
    template_dir \notin fs0.dirs
    => /\ phase \in {"NotStarted", "Validating", "Validated", "Failed"}
       /\ phase = "Failed" => error.type = "FileNotFoundError"
       /\ fsDirs = fs0.dirs
       /\ fsFiles = fs0.files

C11_Witness ==
    /\ phase = "Failed"
    /\ error.type = "FileNotFoundError"
    /\ template_dir \notin fs0.dirs
    /\ output_dir \notin fsDirs
    /\ config = <<>>

\* the file taken up cannot be processed: its name or its text does not
\* resolve, or its destination cannot be written
FileFails(src) ==
    LET name == process_filename(Base(src), config)
        dst == PathJoin(output_dir \o RelOf(Parent(src)), name.out)
    IN \/ name.err # "none"
       \/ process_file(src, dst, fsDirs, fsFiles, config).err # "none"

NoSchemaFile ==
    /\ template_dir \in fs0.dirs
    /\ schema_path \notin DOMAIN fs0.files

\* C22 (as claimed): for a template with no schema file the call never fails,
\* whatever the config: validation passes with the empty schema, the walk is
\* entered, and the call ends done.
C22_SchemaOptional ==
    NoSchemaFile
    => /\ phase # "Failed"
       /\ phase \in {"Validated", "Walking", "Done"} => schema = MapV(<<>>)

\* the steps of a call, by the phase before and the phase after; "Validated"
\* is the constructor returned and generate not yet begun
PhaseSteps ==
    { <<"NotStarted", "Validating">>,
      <<"Validating", "Validated">>, <<"Validating", "Failed">>,
      <<"Validated", "Walking">>, <<"Validated", "Failed">>,
      <<"Walking", "Walking">>, <<"Walking", "Done">>, <<"Walking", "Failed">> }

\* the file system below the root differs from what it was before the call
Written == fsDirs # fs0.dirs \/ fsFiles # fs0.files

RequiredList(b) ==
    CASE b = SchemaRequiredN -> <<Kn>>
      [] b = SchemaRequiredAN -> <<Ka, Kn>>
      [] OTHER -> <<>>

\* the required names of the template's schema file, in the list's order
RequiredNames ==
    IF schema_path \in DOMAIN fs0.files THEN RequiredList(fs0.files[schema_path]) ELSE <<>>

\* the top-level keys of the config
TopLevelKeys == {config[i].k : i \in 1..Len(config)}

\* the positions in the required list of the names absent from the config
AbsentRequired == {i \in 1..Len(RequiredNames) : RequiredNames[i] \notin TopLevelKeys}

\* C24: once validation has run, the call has failed with the missing-field
\* error exactly when some required name is absent from the top-level keys of
\* the config, and the error names the first absent name in the list's order;
\* other keys and the values of the config play no part.
C24_PresenceOnlyInOrder ==
    phase \notin {"NotStarted", "Validating"}
    => /\ (phase = "Failed" /\ error.type = "ValueError") <=> AbsentRequired # {}
       /\ AbsentRequired # {}
          => error.arg = RequiredNames[CHOOSE i \in AbsentRequired :
                                           \A j \in AbsentRequired : i <= j]

C24_Witness ==
    /\ phase = "Done"
    /\ RequiredNames = <<Ka, Kn>>
    /\ config = <<KV(Kn, MapV(<<>>)), KV(Kx, IntV(1)), KV(Ka, NoneV)>>
    /\ Len(copied) >= 1

\* C28 (as claimed): within one call no destination is written twice: two
\* different files of a template directory never resolve to the same
\* destination, so nothing written earlier in the walk is overwritten later
\* and, when the call is done, every file taken up has its own output file.
C28_NoDoubleWrite ==
    /\ \A i, j \in 1..Len(copied) : i # j => copied[i].dst # copied[j].dst
    /\ phase = "Done"
       => \A f, g \in ExpectedFiles :
             (f # g /\ Parent(f) = Parent(g)) => ExpectedDst(f) # ExpectedDst(g)

\* C29 (as claimed): every directory the call creates and every file it
\* creates or changes lies in the output directory or below it, and every
\* file is written in the mirror of its source's directory, for every config,
\* those with path separators or ".." in a value used in a file name included.
C29_OutputContained ==
    /\ \A d \in fsDirs \ fs0.dirs : IsUnder(d, output_dir)
    /\ \A f \in DOMAIN fsFiles :
          (f \notin DOMAIN fs0.files \/ fsFiles[f] # fs0.files[f]) => IsUnder(f, output_dir)
    /\ \A i \in 1..Len(copied) :
          /\ IsUnder(copied[i].dst, output_dir)
          /\ Parent(copied[i].dst) = output_dir \o RelOf(Parent(copied[i].src))

\* C19 (as claimed): the template tree is the same during and after the
\* call as before it: no file or directory inside the template directory is
\* created, modified or deleted.
C19_TemplateReadOnly ==
    /\ \A p \in fsDirs \cup fs0.dirs :
          IsUnder(p, template_dir) => (p \in fsDirs /\ p \in fs0.dirs)
    /\ \A p \in DOMAIN fsFiles \cup DOMAIN fs0.files :
          IsUnder(p, template_dir)
          => /\ p \in DOMAIN fsFiles
             /\ p \in DOMAIN fs0.files
             /\ fsFiles[p] = fs0.files[p]

---------------------------------------------------------------------------
(* create_template_from_project                                            *)

\* project_dir, and output_dir: by default the directory of the template of
\* that name under the templates root, where the generator looks for it; or
\* the directory t inside the project
project_dir == <<<<"p">>>>
capture_output_dir == IF nested THEN <<<<"p">>, <<"t">>>> ELSE template_dir

\* lines 218-232: the default exclude patterns
DefaultExcludes ==
    << <<".", "g", "i", "t">>,
       <<".", "v", "e", "n", "v">>,
       <<"v", "e", "n", "v">>,
       <<"_", "_", "p", "y", "c", "a", "c", "h", "e", "_", "_">>,
       <<"n", "o", "d", "e", "_", "m", "o", "d", "u", "l", "e", "s">>,
       <<".", "n", "e", "x", "t">>,
       <<".", "D", "S", "_", "S", "t", "o", "r", "e">>,
       <<"*", ".", "p", "y", "c">>,
       <<"*", ".", "p", "y", "o">>,
       <<"*", ".", "p", "y", "d">>,
       <<".", "e", "n", "v">>,
       <<"d", "i", "s", "t">>,
       <<"b", "u", "i", "l", "d">> >>


\* "nothing to repeat": re.compile rejects a pattern that begins with a
\* repetition sign (the glob *.pyc is no regular expression)
RegexError(pattern) == pattern # <<>> /\ pattern[1] \in {"*", "+", "?"}

RECURSIVE MatchFrom(_, _, _, _)
\* the pattern from position i matches at position j of s: a character
\* stands for itself, "." for any character but a newline, a backslash
\* escapes the next, "$" holds at the end of s or before its last newline
MatchFrom(pattern, i, s, j) ==
    IF i > Len(pattern) THEN TRUE
    ELSE IF pattern[i] = "$"
    THEN /\ j = Len(s) + 1 \/ (j = Len(s) /\ s[j] = "\n")
         /\ MatchFrom(pattern, i + 1, s, j)
    ELSE IF pattern[i] = "\\"
    THEN /\ i + 1 <= Len(pattern)
         /\ j <= Len(s)
         /\ s[j] = pattern[i + 1]
         /\ MatchFrom(pattern, i + 2, s, j + 1)
    ELSE /\ j <= Len(s)
         /\ IF pattern[i] = "." THEN s[j] # "\n" ELSE pattern[i] = s[j]
         /\ MatchFrom(pattern, i + 1, s, j + 1)

\* re.match(pattern, s): a match at the beginning of s
re_match(pattern, s) ==
    IF RegexError(pattern) THEN [err |-> "re.error", found |-> FALSE]
    ELSE [err |-> "none", found |-> MatchFrom(pattern, 1, s, 1)]

RECURSIVE AnyMatchFrom(_, _, _)
\* any(re.match(pattern, s) for pattern in patterns): the patterns in
\* order, up to the first that matches or that does not compile
AnyMatchFrom(patterns, i, s) ==
    IF i > Len(patterns) THEN [err |-> "none", found |-> FALSE]
    ELSE LET m == re_match(patterns[i], s)
         IN IF m.err # "none" \/ m.found THEN m ELSE AnyMatchFrom(patterns, i + 1, s)

AnyMatch(patterns, s) == AnyMatchFrom(patterns, 1, s)

\* str() of a relative path: "." for the empty one
RelPathStr(rel) == IF rel = <<>> THEN <<".">> ELSE PathString(rel)

---------------------------------------------------------------------------
(* Inputs of create_template_from_project: the project tree, the patterns, *)
(* the files that cannot be read and what the template directory holds      *)
(* before the call                                                          *)

N_a == <<"a">>
N_stale == <<"s", "t", "a", "l", "e">>
P_glob_pyc == <<"*", ".", "p", "y", "c">>
P_d_m == <<"d", "/", "m">>
P_d_e == <<"d", "/", "e">>
P_d_e_end == <<"d", "/", "e", "$">>

\* the entries a project is made of, by their path under the project root
ProjectEntries ==
    { FileE(<<N_a>>, TextHi),
      FileE(<<N_logo>>, BinLogo),
      FileE(<<N_schema>>, SchemaRequiredN),
      FileE(<<N_x_pyc>>, BinLogo),
      FileE(<<N_d, <<"m">>>>, TextAccent),
      FileE(<<N_d, N_pycache, <<"m">>>>, TextHi),
      FileE(<<N_pycache, <<"c">>>>, TextPlain),
      FileE(<<N_d, N_e, N_h, <<"m">>>>, TextPlain),
      DirE(<<N_e>>) }

Projects == SubsetsUpTo(ProjectEntries, MaxEntries)

\* exclude_paths: None, or the list the caller gives
ExcludeChoices ==
    { NoneV,
      ListV(<<N_pycache>>),
      ListV(<<P_glob_pyc, N_pycache>>),
      ListV(<<N_pycache, P_glob_pyc>>),
      ListV(<<P_d_m>>),
      ListV(<<P_d_e>>),
      ListV(<<P_d_e_end>>) }

ProjectDirs(E) ==
    UNION {{project_dir \o a : a \in Ancestors(IF e.dir THEN e.path ELSE Parent(e.path))}
           : e \in E} \cup Ancestors(project_dir)

ProjectFilePaths(E) == {project_dir \o e.path : e \in {x \in E : ~x.dir}}

ProjectFiles(E) ==
    [p \in ProjectFilePaths(E) |->
        (CHOOSE e \in E : ~e.dir /\ project_dir \o e.path = p).bytes]

\* the template directory before the call: absent, or left by an earlier
\* capture (a file the project no longer has), or holding a directory named a
CaptureBefore ==
    { [dirs |-> {}, files |-> <<>>],
      [dirs |-> {capture_output_dir},
       files |-> [p \in {Append(capture_output_dir, N_stale)} |-> <<"o", "l", "d">>]],
      [dirs |-> {capture_output_dir, Append(capture_output_dir, N_a)}, files |-> <<>>] }

\* the local state of a call that has not begun
NotBegun(first) ==
    /\ phase = first
    /\ error = [type |-> "none", arg |-> <<>>]
    /\ walkStack = <<>>
    /\ root = <<>>
    /\ files = {}
    /\ visited = {}
    /\ opened = {}
    /\ copied = <<>>

InitCapture ==
    /\ ResolverIdle
    /\ SingleCall("capture")
    /\ config = <<>>
    /\ schema = NoneV
    /\ exclude_paths \in ExcludeChoices
    /\ \E E \in Projects, out \in CaptureBefore, present \in BOOLEAN :
          /\ ~present => E = {}
          /\ fsDirs = {<<>>} \cup out.dirs \cup (IF present THEN ProjectDirs(E) ELSE {})
          /\ fsFiles = Merge(out.files, IF present THEN ProjectFiles(E) ELSE <<>>)
    /\ denied \in {{}} \cup {{Append(project_dir, N_a)} \cap DOMAIN fsFiles}
    /\ fs0 = [dirs |-> fsDirs, files |-> fsFiles]
    /\ NotBegun("CaptureNotStarted")

---------------------------------------------------------------------------
(* create_template_from_project as a state machine                         *)

\* lines 210-232: the template directory is created and, with no patterns
\* given, the default ones are taken
CaptureBegin ==
    /\ phase = "CaptureNotStarted"
    /\ LET m == Mkdir(capture_output_dir, fsDirs, fsFiles)
       IN IF m.err # "none"
          THEN Fail(Exception(m.err)) /\ UNCHANGED <<fsDirs, exclude_paths>>
          ELSE /\ fsDirs' = m.dirs
               /\ exclude_paths' = IF exclude_paths = NoneV THEN ListV(DefaultExcludes)
                                   ELSE exclude_paths
               /\ phase' = "CaptureSchema"
               /\ UNCHANGED error
    /\ UNCHANGED <<config, fsFiles, fs0, schema, denied>>
    /\ UNCHANGED walkVars
    /\ UNCHANGED resolverVars
    /\ UNCHANGED schedVars

\* lines 234-253: the synthesized schema is written and os.walk starts at
\* the project directory; os.walk of a directory that does not exist yields
\* nothing
CaptureSchema ==
    /\ phase = "CaptureSchema"
    /\ LET w == OpenWrite(Append(capture_output_dir, N_schema), yaml_dump(SynthSchema),
                          fsDirs, fsFiles)
       IN IF w.err # "none"
          THEN Fail(Exception(w.err)) /\ UNCHANGED <<fsFiles, walkStack>>
          ELSE /\ fsFiles' = w.files
               /\ walkStack' = IF project_dir \in fsDirs THEN <<{project_dir}>> ELSE <<>>
               /\ phase' = "Capturing"
               /\ UNCHANGED error
    /\ UNCHANGED <<config, fsDirs, fs0, schema, root, files, visited, opened, copied>>
    /\ UNCHANGED captureVars
    /\ UNCHANGED resolverVars
    /\ UNCHANGED schedVars

\* line 255: the directories of `dirs` that are kept
CaptureKeptDirs(names, patterns) == {n \in names : ~AnyMatch(patterns, n).found}

\* lines 253-266: os.walk lists the next directory d and yields it; the loop
\* body prunes d's directories by name, skips d when its relative path
\* matches a pattern, and creates the target directory
CaptureVisitDir ==
    /\ phase = "Capturing"
    /\ files = {}
    /\ walkStack # <<>>
    /\ \E d \in walkStack[Len(walkStack)] :
          LET patterns == exclude_paths.l
              dirs == ChildDirs(d, fsDirs)
              below == {Append(d, n) : n \in CaptureKeptDirs(dirs, patterns)}
              rest == [walkStack EXCEPT ![Len(walkStack)] = @ \ {d}]
              rel_path == RelativeTo(d, project_dir)
              target_dir == capture_output_dir \o rel_path
              skip == AnyMatch(patterns, RelPathStr(rel_path))
              m == Mkdir(target_dir, fsDirs, fsFiles)
          IN /\ visited' = visited \cup {d}
             /\ root' = d
             /\ IF \E n \in dirs : AnyMatch(patterns, n).err # "none"
                THEN Fail(Exception("re.error")) /\ UNCHANGED <<fsDirs, walkStack, files>>
                ELSE IF skip.err # "none"
                THEN Fail(Exception(skip.err)) /\ UNCHANGED <<fsDirs, walkStack, files>>
                ELSE IF skip.found
                THEN /\ walkStack' = DropEmpty(Append(rest, below))
                     /\ UNCHANGED <<fsDirs, files, phase, error>>
                ELSE IF m.err # "none"
                THEN Fail(Exception(m.err)) /\ UNCHANGED <<fsDirs, walkStack, files>>
                ELSE /\ fsDirs' = m.dirs
                     /\ files' = ChildFiles(d, fsFiles)
                     /\ walkStack' = DropEmpty(Append(rest, below))
                     /\ UNCHANGED <<phase, error>>
    /\ UNCHANGED <<config, fsFiles, fs0, schema, opened, copied>>
    /\ UNCHANGED captureVars
    /\ UNCHANGED resolverVars
    /\ UNCHANGED schedVars

\* lines 269-278: one file of `files`, in any order
CaptureCopyFile ==
    /\ phase = "Capturing"
    /\ files # {}
    /\ \E file \in files :
          LET src_file == Append(root, file)
              excluded == AnyMatch(exclude_paths.l, file)
              target_dir == capture_output_dir \o RelativeTo(root, project_dir)
              dst_file == PathJoin(target_dir, file)
              c == Copy2(src_file, dst_file, fsDirs, fsFiles)
          IN /\ files' = files \ {file}
             /\ IF excluded.err # "none"
                THEN Fail(Exception(excluded.err)) /\ UNCHANGED <<fsFiles, opened, copied>>
                ELSE IF excluded.found
                THEN UNCHANGED <<fsFiles, phase, error, opened, copied>>
                ELSE /\ opened' = opened \cup {src_file}
                     /\ IF src_file \in denied
                        THEN Fail(Exception("PermissionError")) /\ UNCHANGED <<fsFiles, copied>>
                        ELSE IF c.err # "none"
                        THEN Fail(Exception(c.err)) /\ UNCHANGED <<fsFiles, copied>>
                        ELSE /\ fsFiles' = c.files
                             /\ copied' = Append(copied, [src |-> src_file,
                                                          dst |-> c.path,
                                                          mode |-> "binary"])
                             /\ UNCHANGED <<phase, error>>
    /\ UNCHANGED <<config, fsDirs, fs0, schema, walkStack, root, visited>>
    /\ UNCHANGED captureVars
    /\ UNCHANGED resolverVars
    /\ UNCHANGED schedVars

\* lines 280-281: os.walk is exhausted; success is printed and the call returns
CaptureReturn ==
    /\ phase = "Capturing"
    /\ files = {}
    /\ walkStack = <<>>
    /\ phase' = "Done"
    /\ UNCHANGED <<config, fsDirs, fsFiles, fs0, schema, error>>
    /\ UNCHANGED walkVars
    /\ UNCHANGED captureVars
    /\ UNCHANGED resolverVars
    /\ UNCHANGED schedVars

NextCapture ==
    CaptureBegin \/ CaptureSchema \/ CaptureVisitDir \/ CaptureCopyFile \/ CaptureReturn

SpecCapture == InitCapture /\ [][NextCapture]_vars

---------------------------------------------------------------------------
(* Claims about create_template_from_project, under SpecCapture            *)

Ended == phase \in {"Done", "Failed"}

\* the patterns in force: the caller's, or the default ones
PatternsInForce == IF exclude_paths = NoneV THEN DefaultExcludes ELSE exclude_paths.l

\* the caller gave patterns
CallerPatterns == exclude_paths \notin {NoneV, ListV(DefaultExcludes)}

IsSuffix(suf, s) == Len(suf) <= Len(s) /\ SubSeq(s, Len(s) - Len(suf) + 1, Len(s)) = suf

\* the pattern stands for the name: as a regular expression matched at the
\* beginning of the name, or, written as a glob (*.pyc), as a suffix
PatternCovers(pattern, name) ==
    IF RegexError(pattern) THEN IsSuffix(Tail(pattern), name)
    ELSE MatchFrom(pattern, 1, name, 1)

\* the entries of the project, the project directory itself left out
ProjectTree ==
    {q \in fs0.dirs \cup DOMAIN fs0.files : IsUnder(q, project_dir) /\ q # project_dir}

ProjectRel(q) == RelativeTo(q, project_dir)
Mirror(q) == capture_output_dir \o ProjectRel(q)

\* a pattern stands for the entry's name, for the name of a directory above
\* it, or for the relative path of the entry or of a directory above it
Excluded(q) ==
    \E i \in 1..Len(PatternsInForce), k \in 1..Len(ProjectRel(q)) :
        \/ PatternCovers(PatternsInForce[i], ProjectRel(q)[k])
        \/ PatternCovers(PatternsInForce[i], PathString(SubSeq(ProjectRel(q), 1, k)))

\* the entry is in the template at the same relative path, a file with the
\* bytes of its source
PresentInTemplate(q) ==
    IF q \in fs0.dirs THEN Mirror(q) \in fsDirs
    ELSE Mirror(q) \in DOMAIN fsFiles /\ fsFiles[Mirror(q)] = fs0.files[q]

\* the directories of the project whose name a pattern matches
MatchedDirs ==
    {d \in ProjectTree \cap fs0.dirs :
        \E i \in 1..Len(PatternsInForce) : PatternCovers(PatternsInForce[i], Base(d))}

\* nothing of entry q has been put into the template by the call
NothingCaptured(q) ==
    /\ \A i \in 1..Len(copied) : copied[i].src # q
    /\ Mirror(q) \notin (fsDirs \ fs0.dirs)
    /\ Mirror(q) \notin (DOMAIN fsFiles \ DOMAIN fs0.files)

\* C13 (as claimed): with patterns given by the caller, one of which matches
\* a directory of the project, and every file readable, the call ends by
\* completing, nothing of the matched directory or below it is in the
\* template, and every entry no pattern stands for is in the template at
\* the same relative path, byte-identical.
C13_CaptureExclusion ==
    (CallerPatterns /\ MatchedDirs # {} /\ denied = {} /\ Ended)
    => /\ phase = "Done"
       /\ \A d \in MatchedDirs : \A q \in ProjectTree : IsUnder(q, d) => NothingCaptured(q)
       /\ \A q \in ProjectTree : ~Excluded(q) => PresentInTemplate(q)

\* the conventional build, version-control and dependency directories, and
\* the bytecode suffixes
ConventionalDirs ==
    {DefaultExcludes[i] : i \in {1, 2, 3, 4, 5, 6, 12, 13}}

BytecodeSuffixes == {Tail(DefaultExcludes[i]) : i \in {8, 9, 10}}

Conventional(q) ==
    \/ \E k \in 1..Len(ProjectRel(q)) : ProjectRel(q)[k] \in ConventionalDirs
    \/ \E suf \in BytecodeSuffixes : IsSuffix(suf, Base(q))

\* C14 (as claimed): called on an existing project without exclude patterns
\* (and every file readable), the call ends by completing, nothing from a
\* conventional directory and no bytecode file has been put into the
\* template, and every project file no default pattern stands for is in the
\* template.
C14_DefaultPatterns ==
    (~CallerPatterns /\ project_dir \in fs0.dirs /\ denied = {} /\ Ended)
    => /\ phase = "Done"
       /\ \A q \in ProjectTree : Conventional(q) => NothingCaptured(q)
       /\ \A q \in ProjectTree \cap DOMAIN fs0.files : ~Excluded(q) => PresentInTemplate(q)

\* every pattern in force is a regular expression
Compilable == \A i \in 1..Len(PatternsInForce) : ~RegexError(PatternsInForce[i])

\* C15 (as claimed): when a file that is not excluded cannot be copied
\* (permission denied), the call still ends by completing and reporting
\* success, and every other file that is not excluded is in the template.
C15_PartialFailureTolerated ==
    (/\ Compilable
     /\ \E q \in denied : ~Excluded(q)
     /\ Ended)
    => /\ phase = "Done"
       /\ \A q \in (ProjectTree \cap DOMAIN fs0.files) \ denied :
             ~Excluded(q) => PresentInTemplate(q)

\* C16 (as claimed): when the project directory does not exist the call
\* fails with the project-not-found error before creating anything: the
\* template directory and its schema file are not created and the call
\* does not complete.
C16_ProjectNotFoundFirst ==
    project_dir \notin fs0.dirs
    => /\ phase # "Done"
       /\ phase = "Failed" => error.type = "FileNotFoundError"
       /\ fsDirs = fs0.dirs
       /\ fsFiles = fs0.files

\* C17 (as claimed): when the call has completed, every project file that is
\* not excluded is in the template at the same relative path with the bytes
\* of its source, and the files the call has written are these copies and
\* the schema file, nothing else.
C17_CaptureMirrorsVerbatim ==
    phase = "Done"
    => /\ \A q \in ProjectTree \cap DOMAIN fs0.files : ~Excluded(q) => PresentInTemplate(q)
       /\ \A i \in 1..Len(copied) :
             /\ ~Excluded(copied[i].src)
             /\ copied[i].dst = Mirror(copied[i].src)
       /\ \A p \in DOMAIN fsFiles :
             (p \notin DOMAIN fs0.files \/ fsFiles[p] # fs0.files[p])
             => \/ p = Append(capture_output_dir, N_schema)
                \/ \E q \in ProjectTree \cap DOMAIN fs0.files : ~Excluded(q) /\ p = Mirror(q)

\* C18 (as claimed): when the call has completed, the schema file at the
\* template root holds the synthesized document, whatever the project
\* holds at its root: its required list is exactly project_name and
\* project_description and its properties map has an entry for each.
C18_SynthesizedSchema ==
    phase = "Done"
    => /\ Append(capture_output_dir, N_schema) \in DOMAIN fsFiles
       /\ LET doc == yaml_safe_load(fsFiles[Append(capture_output_dir, N_schema)])
          IN /\ doc.t = "map"
             /\ HasKey(doc.m, K_required)
             /\ Get(doc.m, K_required) =
                    ListV(<<StrV(K_project_name), StrV(K_project_description)>>)
             /\ HasKey(doc.m, K_properties)
             /\ HasKey(Get(doc.m, K_properties).m, K_project_name)
             /\ HasKey(Get(doc.m, K_properties).m, K_project_description)

\* a pattern matches the entry's bare name or its path relative to the
\* project root
MatchedByNameOrPath(q) ==
    \E i \in 1..Len(PatternsInForce) :
        \/ PatternCovers(PatternsInForce[i], Base(q))
        \/ PatternCovers(PatternsInForce[i], PathString(ProjectRel(q)))

\* C25 (as claimed): for every pattern list, a directory of the project that
\* a pattern matches by its name or by its relative path is not descended
\* into: no directory below it is visited by the walk, and no file or
\* directory below it is put into the template.
C25_ExcludedDirsPruned ==
    \A d \in ProjectTree \cap fs0.dirs :
        MatchedByNameOrPath(d)
        => \A q \in ProjectTree :
              (IsUnder(q, d) /\ q # d) => (q \notin visited /\ NothingCaptured(q))

\* C26 (as claimed): an entry of the project that a pattern matches by its
\* bare name or by its relative path is excluded: nothing of it is put into
\* the template; so a file in a subdirectory whose relative path matches a
\* pattern is not copied.
C26_NameAndRelativePath ==
    \A q \in ProjectTree : MatchedByNameOrPath(q) => NothingCaptured(q)

---------------------------------------------------------------------------
(* Two calls at once: generate_from_template(t, o, config) and              *)
(* create_template_from_project(p, t), whose output directories o and t     *)
(* differ.  Each call is first run alone from the initial file system and   *)
(* its outcome kept; then the two run together from the same file system,   *)
(* their steps interleaved in every order.                                  *)

\* the local state of the call that is running
Local ==
    [phase |-> phase, error |-> error, walkStack |-> walkStack, root |-> root,
     files |-> files, visited |-> visited, opened |-> opened, copied |-> copied]

\* the local state of a call that has not begun
Fresh(first) ==
    [phase |-> first, error |-> [type |-> "none", arg |-> <<>>], walkStack |-> <<>>,
     root |-> <<>>, files |-> {}, visited |-> {}, opened |-> {}, copied |-> <<>>]

FirstPhase(op) == IF op = "generate" THEN "NotStarted" ELSE "CaptureNotStarted"

\* the local state l becomes the running call's
Resume(l) ==
    /\ phase' = l.phase
    /\ error' = l.error
    /\ walkStack' = l.walkStack
    /\ root' = l.root
    /\ files' = l.files
    /\ visited' = l.visited
    /\ opened' = l.opened
    /\ copied' = l.copied

OutputDirOf(op) == IF op = "generate" THEN output_dir ELSE capture_output_dir

Other(op) == IF op = "generate" THEN "capture" ELSE "generate"

\* what a call has produced: how it ended and the tree at its output directory
Outcome(op, l) ==
    [phase |-> l.phase,
     error |-> l.error.type,
     dirs |-> {p \in fsDirs : IsUnder(p, OutputDirOf(op))},
     files |-> [p \in {q \in DOMAIN fsFiles : IsUnder(q, OutputDirOf(op))} |-> fsFiles[p]]]

\* the templates and the projects of the two calls
ConcurrentTemplates == SubsetsUpTo({FileE(<<N_Foo_md>>, TextPlain)}, 1)

ConcurrentProjects ==
    SubsetsUpTo({ FileE(<<N_a>>, TextHi),
                  FileE(<<N_d, <<"m">>>>, TextAccent),
                  FileE(<<N_pycache, <<"c">>>>, TextPlain) }, 2)

InitConcurrent ==
    /\ nested = FALSE
    /\ ResolverIdle
    /\ config \in GenConfigs
    /\ schema = NoneV
    /\ exclude_paths = ListV(<<N_pycache>>)
    /\ denied = {}
    /\ \E E \in ConcurrentTemplates, P \in ConcurrentProjects, present \in BOOLEAN :
          /\ ~present => E = {}
          /\ fsDirs = ProjectDirs(P) \cup (IF present THEN TemplateDirs(E) ELSE {})
          /\ fsFiles = Merge(ProjectFiles(P),
                             IF present THEN TemplateFiles(E, <<"absent">>) ELSE <<>>)
    /\ fs0 = [dirs |-> fsDirs, files |-> fsFiles]
    /\ stage = "alone"
    /\ alone = <<>>
    /\ current = "generate"
    /\ parked = Fresh(FirstPhase("capture"))
    /\ NotBegun(FirstPhase("generate"))

\* the call run alone has ended: its outcome is kept, the file system is put
\* back as it was, and the other call is run alone; after both, the two
\* calls are begun together
AloneEnds ==
    /\ stage = "alone"
    /\ phase \in {"Done", "Failed"}
    /\ alone' = alone @@ (current :> Outcome(current, Local))
    /\ fsDirs' = fs0.dirs
    /\ fsFiles' = fs0.files
    /\ schema' = NoneV
    /\ current' = Other(current)
    /\ stage' = IF current = "capture" THEN "together" ELSE "alone"
    /\ Resume(Fresh(FirstPhase(Other(current))))
    /\ parked' = Fresh(FirstPhase(current))
    /\ UNCHANGED <<config, fs0, nested>>
    /\ UNCHANGED captureVars
    /\ UNCHANGED resolverVars

\* the scheduler lets the other call take its next step
Switch ==
    /\ stage = "together"
    /\ parked.phase \notin {"Done", "Failed"}
    /\ Resume(parked)
    /\ parked' = Local
    /\ current' = Other(current)
    /\ UNCHANGED <<config, fsDirs, fsFiles, fs0, schema, stage, alone, nested>>
    /\ UNCHANGED captureVars
    /\ UNCHANGED resolverVars

NextConcurrent ==
    \/ Call \/ Validate \/ GenerateBegin \/ VisitDir \/ ProcessFile \/ Return
    \/ CaptureBegin \/ CaptureSchema \/ CaptureVisitDir \/ CaptureCopyFile \/ CaptureReturn
    \/ AloneEnds \/ Switch

SpecConcurrent == InitConcurrent /\ [][NextConcurrent]_vars

\* C20 (as claimed): when the two calls, run together, have both ended,
\* each has ended the way it ends when run alone and the tree at its output
\* directory is the one it produces when run alone, whatever the order of
\* their steps was.
C20_ConcurrentCallsIndependent ==
    (stage = "together" /\ phase \in {"Done", "Failed"} /\ parked.phase \in {"Done", "Failed"})
    => /\ Outcome(current, Local) = alone[current]
       /\ Outcome(Other(current), parked) = alone[Other(current)]

---------------------------------------------------------------------------
(* generate_from_template called a second time with the same template,     *)
(* output directory and config, on the file system the first call left     *)

\* the first call is done: what it left at the output directory and the
\* order in which it wrote are kept, and the second call is begun
Rerun ==
    /\ stage = "single"
    /\ current = "generate"
    /\ phase = "Done"
    /\ alone' = ("first" :> [tree |-> Outcome("generate", Local), order |-> copied])
    /\ stage' = "second"
    /\ Resume(Fresh("NotStarted"))
    /\ schema' = NoneV
    /\ fs0' = [dirs |-> fsDirs, files |-> fsFiles]
    /\ UNCHANGED <<config, fsDirs, fsFiles, current, parked, nested>>
    /\ UNCHANGED captureVars
    /\ UNCHANGED resolverVars

NextRerun == Next \/ Rerun

\* the configurations with an escaping name included
SpecRerun == InitEscape /\ [][NextRerun]_vars

\* the template files in the order they were written
SourcesOf(log) == [i \in 1..Len(log) |-> log[i].src]

\* os.walk lists the unchanged template in the second call as in the first
SameListingOrder == SourcesOf(copied) = SourcesOf(alone["first"].order)

\* C27 (as claimed): the second call never fails, so no directory present
\* from the first call stops it; it creates no directory and no file that
\* the first call did not leave; and when it is done, the template listed
\* in the same order, the tree at the output directory is the first call's,
\* paths and contents.
C27_RerunIdempotent ==
    stage = "second"
    => /\ phase # "Failed"
       /\ Outcome("generate", Local).dirs = alone["first"].tree.dirs
       /\ DOMAIN Outcome("generate", Local).files = DOMAIN alone["first"].tree.files
       /\ (phase = "Done" /\ SameListingOrder)
          => Outcome("generate", Local).files = alone["first"].tree.files

---------------------------------------------------------------------------
(* The walks of generate and of create_template_from_project, the output   *)
(* directory beside the tree that is walked or inside it                   *)

N_o == <<"o">>
N_t == <<"t">>

\* the entries of a walked tree; `out` is the name the output directory has
\* when it lies inside the tree: the tree may hold it already, with a file
\* and with a directory of the same name in it
WalkEntries(out) ==
    { FileE(<<N_a>>, TextHi),
      FileE(<<N_h>>, BinLogo),
      FileE(<<N_d, <<"m">>>>, TextPlain),
      DirE(<<N_d, N_e>>),
      FileE(<<out, N_e>>, TextPlain),
      DirE(<<out, out>>),
      FileE(<<out, N_d, <<"m">>>>, TextAccent) }

InitWalks ==
    /\ ResolverIdle
    /\ nested \in BOOLEAN
    /\ stage = "single"
    /\ alone = <<>>
    /\ parked = <<>>
    /\ current \in {"generate", "capture"}
    /\ config = <<KV(Kn, StrV(<<"F", "o", "o">>))>>
    /\ schema = NoneV
    /\ exclude_paths = IF current = "capture" THEN ListV(<<N_pycache>>) ELSE NoneV
    /\ denied = {}
    /\ IF current = "generate"
       THEN \E E \in SubsetsUpTo(WalkEntries(N_o), MaxEntries) :
               /\ fsDirs = TemplateDirs(E)
               /\ fsFiles = TemplateFiles(E, <<"absent">>)
       ELSE \E E \in SubsetsUpTo(WalkEntries(N_t), MaxEntries) :
               /\ fsDirs = ProjectDirs(E)
               /\ fsFiles = ProjectFiles(E)
    /\ fs0 = [dirs |-> fsDirs, files |-> fsFiles]
    /\ NotBegun(FirstPhase(current))

NextWalks ==
    \/ Call \/ Validate \/ GenerateBegin \/ VisitDir \/ ProcessFile \/ Return
    \/ CaptureBegin \/ CaptureSchema \/ CaptureVisitDir \/ CaptureCopyFile \/ CaptureReturn

\* the steps of the two calls other than those of the loops over `files`
WalkSteps ==
    \/ Call \/ Validate \/ GenerateBegin \/ VisitDir \/ Return
    \/ CaptureBegin \/ CaptureSchema \/ CaptureVisitDir \/ CaptureReturn

\* lines 162 and 269: the loop over `files` takes up its next file; every
\* ProcessFile and every CaptureCopyFile step is such a step, and no other is
TakeFile ==
    /\ phase \in {"Walking", "Capturing"}
    /\ files # {}
    /\ \E file \in files : files' = files \ {file}

\* the process runs on: a call that can take a step takes one
SpecWalks ==
    InitWalks /\ [][NextWalks]_vars /\ WF_vars(WalkSteps) /\ WF_files(TakeFile)

\* os.walk is about to yield a directory
AboutToVisit == phase \in {"Walking", "Capturing"} /\ files = {} /\ walkStack # <<>>

\* C30: every step in which the walk yields a directory yields one it has
\* not yielded before, a directory that was in the tree when its parent
\* was listed or that the call's own writes put there before; and every call
\* ends, done or failed, also with the output directory inside the tree.
C30_WalksTerminate ==
    /\ [][ AboutToVisit => (root' \notin visited /\ visited' = visited \cup {root'}) ]_vars
    /\ <>(phase \in {"Done", "Failed"})

C30_Witness ==
    /\ nested
    /\ phase = "Done"
    /\ current = "generate"
    /\ output_dir \in visited
    /\ output_dir \o <<N_o, N_a>> \in DOMAIN fsFiles
    /\ output_dir \o <<N_d>> \in visited

===========================================================================
